---- MODULE Spec2Model ----
(***************************************************************************)
(* Model of the Ebbinghaus revision bot (src/bot.py, src/config.py):       *)
(* the MongoDB collections users / topics / revisions, the message and     *)
(* callback handlers that read and write them, and the background loop     *)
(* send_daily_reminders.                                                   *)
(*                                                                         *)
(* Time is counted in minutes (datetime.utcnow() sampled at the instants   *)
(* of Instants).  A BSON value carries its type: an ObjectId and the       *)
(* string that str() makes of it are different values.                     *)
(***************************************************************************)
EXTENDS Integers, Sequences, FiniteSets, TLC

VARIABLES
    now,            \* the wall clock, datetime.utcnow(), in minutes
    users_col,      \* db["users"]: user_id -> document (exists = FALSE: no document)
    topics_col,     \* db["topics"]: set of documents
    revisions_col,  \* db["revisions"]: set of documents
    nextOid,        \* the ObjectId generator of insert_one / insert_many
    wake,           \* send_daily_reminders: the instant its asyncio.sleep ends
                    \* (0: the loop is not asleep)
    out,            \* what the last handler sent back (a listing, an answer)
    lastRem,        \* per user, the last reminder send the loop attempted
    alive           \* the task of send_daily_reminders has not ended

vars == << now, users_col, topics_col, revisions_col, nextOid, wake, out, lastRem,
          alive >>

---------------------------------------------------------------------------
(* Bounds of the model *)

MaxTopics == 1

---------------------------------------------------------------------------
(* Program constants *)

\* variant: two entries of the table swapped
REVISION_INTERVALS_Swapped == << 0, 1, 7, 3, 15, 30 >>

REVISION_INTERVALS == << 0, 1, 3, 7, 15, 30 >>

MinutesPerDay == 1440

\* variant: a sleep one minute short of the selection window
ShortSleep == 30 - 1

SleepMinutes == 30

WindowMinutes == 30

DueListLimit == 10

ReminderListLimit == 5

DefaultNotificationTime == << 9, 0 >>

SUBJECTS == << "Biology", "Chemistry", "Physics", "Other" >>

UserIds == { 1, 2 }

---------------------------------------------------------------------------
(* Values *)

None == << >>

Some(x) == << x >>

ObjectId(n) == [ty |-> "ObjectId", v |-> n]

\* str(ObjectId): the 24-digit hex string, a BSON string and not an ObjectId
str(oid) == [ty |-> "str", v |-> oid.v]

\* a callback string that is the hex form of no ObjectId
BogusArg == [ty |-> "str", v |-> 0]

\* f"complete_{rev['_id']}": the segments that "_" joins
CompleteData(oid) == << "complete", str(oid) >>

\* callback_query.data.split("_")[1]
CallbackArg(data) == data[2]

\* BSON equality in a query filter: values of different types never match
BsonEq(a, b) == a.ty = b.ty /\ a.v = b.v

\* timedelta(days = d), timedelta(minutes = m)
Days(d) == d * MinutesPerDay

\* datetime.strftime("%H:%M"): the date is dropped
strftime_HM(t) == << (t % MinutesPerDay) \div 60, t % 60 >>

\* comparison of two zero-padded "HH:MM" strings
StrLe(a, b) == a[1] < b[1] \/ (a[1] = b[1] /\ a[2] <= b[2])

StrGt(a, b) == ~ StrLe(a, b)

NotifMinute == DefaultNotificationTime[1] * 60 + DefaultNotificationTime[2]

\* the instants at which the clock is sampled: the minute before the users'
\* notification time, that minute, the last minute of the window that starts
\* with it, and the first minute after that window
Instants == { NotifMinute - 1, NotifMinute, NotifMinute + WindowMinutes - 1,
              NotifMinute + WindowMinutes }

TopicNames == { "Human Digestive System" }

SubjectInputs == { SUBJECTS[1] }

NoUser == [ exists |-> FALSE, state |-> "None",
            state_data |-> [topic_name |-> "", subject |-> ""],
            notification_time |-> DefaultNotificationTime ]

NoData == [topic_name |-> "", subject |-> ""]

---------------------------------------------------------------------------
(* Helper functions of bot.py, as operators on the collections *)

NewUser == [ exists |-> TRUE, state |-> "None", state_data |-> NoData,
             notification_time |-> DefaultNotificationTime ]

\* get_user: the document find_one returns, or the one it inserts
get_user(users, u) == IF users[u].exists THEN users[u] ELSE NewUser

\* the users collection after get_user(u)
get_user_store(users, u) == [users EXCEPT ![u] = get_user(users, u)]

\* update_user_state: update_one without upsert, a missing document stays missing
update_user_state(users, u, state, data) ==
    IF users[u].exists
    THEN [users EXCEPT ![u].state = state, ![u].state_data = data]
    ELSE users

\* the topic document of create_topic
NewTopic(u, name, subject, t, base) ==
    [ id |-> ObjectId(base), user_id |-> u, topic_name |-> name,
      subject |-> subject, created_at |-> t, is_active |-> TRUE ]

\* variant: timedelta(hours = interval) in place of timedelta(days = interval)
NewRevisions_Hours(u, t, base) ==
    { [ id |-> ObjectId(base + i), topic_id |-> ObjectId(base), user_id |-> u,
        interval |-> REVISION_INTERVALS[i],
        due_date |-> t + 60 * REVISION_INTERVALS[i],
        completed |-> FALSE, completed_at |-> None ]
      : i \in 1..Len(REVISION_INTERVALS) }

\* the revision batch of create_topic: one document per entry of the table
NewRevisions(u, t, base) ==
    { [ id |-> ObjectId(base + i), topic_id |-> ObjectId(base), user_id |-> u,
        interval |-> REVISION_INTERVALS[i],
        due_date |-> t + Days(REVISION_INTERVALS[i]),
        completed |-> FALSE, completed_at |-> None ]
      : i \in 1..Len(REVISION_INTERVALS) }

\* variant: the filter without "user_id"
get_due_revisions_AnyUser(revs, u, t) ==
    { r \in revs : ~ r.completed /\ r.due_date <= t }

\* variant: "$lt" in place of "$lte"
get_due_revisions_Strict(revs, u, t) ==
    { r \in revs : r.user_id = u /\ ~ r.completed /\ r.due_date < t }

\* variant: a revision on the buttons of a reminder delivered less than one
\* scan period ago is left out
get_due_revisions_Throttled(revs, u, t) ==
    { r \in revs :
        /\ r.user_id = u /\ ~ r.completed /\ r.due_date <= t
        /\ ~ ( /\ lastRem[u].sent /\ lastRem[u].ok /\ r.id \in lastRem[u].revs
               /\ t - lastRem[u].t < SleepMinutes ) }

\* variant: the filter without "completed": False
get_due_revisions_AnyState(revs, u, t) ==
    { r \in revs : r.user_id = u /\ r.due_date <= t }

\* get_due_revisions: the documents the query matches (their order is due_date)
get_due_revisions(revs, u, t) ==
    { r \in revs : r.user_id = u /\ ~ r.completed /\ r.due_date <= t }

\* the possible values of sorted_by_due_date(S)[:n] (ties in any order)
FirstN(S, n) ==
    IF Cardinality(S) <= n THEN { S }
    ELSE { L \in SUBSET S :
             /\ Cardinality(L) = n
             /\ \A a \in L, b \in S \ L : a.due_date <= b.due_date }

\* topics_col.find_one({"_id": tid}) finds a document
TopicFound(topics, tid) == \E tp \in topics : BsonEq(tp.id, tid)

\* the buttons of a listing: only revisions whose topic is found get one
Listed(topics, L) == { r \in L : TopicFound(topics, r.topic_id) }

\* variant: the $set moves due_date to the time of the completion as well
complete_revision_Redated(revs, rid, t) ==
    { IF BsonEq(r.id, rid)
      THEN [r EXCEPT !.completed = TRUE, !.completed_at = Some(t), !.due_date = t]
      ELSE r : r \in revs }

\* variant: $set of the flag alone
complete_revision_FlagOnly(revs, rid, t) ==
    { IF BsonEq(r.id, rid) THEN [r EXCEPT !.completed = TRUE] ELSE r : r \in revs }

\* complete_revision: update_one({"_id": rid}, $set completed, completed_at)
complete_revision(revs, rid, t) ==
    { IF BsonEq(r.id, rid)
      THEN [r EXCEPT !.completed = TRUE, !.completed_at = Some(t)]
      ELSE r : r \in revs }

\* variant: the id of the filter compared as text, so that the filter matches
FindForCompletion_Text(revs, rid, u) ==
    { r \in revs : str(r.id) = rid /\ r.user_id = u /\ ~ r.completed }

\* variant: the id compared as text, and no "completed": False in the filter
FindForCompletion_AnyState(revs, rid, u) ==
    { r \in revs : str(r.id) = rid /\ r.user_id = u }

\* variant: the id compared as text, and no "user_id" in the filter
FindForCompletion_NoOwner(revs, rid, u) ==
    { r \in revs : str(r.id) = rid /\ ~ r.completed }

\* the filter of handle_complete_revision's find_one
FindForCompletion(revs, rid, u) ==
    { r \in revs : BsonEq(r.id, rid) /\ r.user_id = u /\ ~ r.completed }

\* the users the reminder loop selects at time t: notification_time in
\* (strftime(t - 30 min), strftime(t)], compared as strings
SelectedUsers(users, t) ==
    { u \in UserIds :
        /\ users[u].exists
        /\ StrLe(users[u].notification_time, strftime_HM(t))
        /\ StrGt(users[u].notification_time, strftime_HM(t - WindowMinutes)) }

\* the revision whose identity a callback string carries
Target(revs, data) == { r \in revs : str(r.id) = CallbackArg(data) }

---------------------------------------------------------------------------
(* Answers of handle_complete_revision *)

AnsNotFound == "Revision not found or already completed"

AnsFailed == "Failed to update revision"

AnsError == "An error occurred. Please try again."

AnsOk == ""

EditAllDone == "All revisions completed"

EditMarked == "Revision marked as done"

\* what a handler sent back: kind is the handler; a /due reply carries the ids
\* get_due_revisions returned (due) and the ids it put on buttons (listed); a
\* completion callback carries its data, its answer and the text it edited in
\* prev: when the callback before this one, with nothing in between, came from
\* the same user with the same data and named an uncompleted revision of that
\* user, what it found and answered
NoPrev == [ valid |-> FALSE, open |-> FALSE, answer |-> "" ]

Out(kind, u) ==
    [ kind |-> kind, user |-> u, data |-> << "complete", BogusArg >>, open |-> FALSE,
      answer |-> "", edit |-> "", due |-> {}, listed |-> {}, prev |-> NoPrev ]

\* per user: the last pass of the loop that attempted a send to the user (the
\* user was selected and had due revisions): its time t, the revisions on the
\* buttons of the message, and whether send_message returned (ok) or raised
NoRem == [ t |-> 0, sent |-> FALSE, revs |-> {}, ok |-> FALSE ]

---------------------------------------------------------------------------
(* Initial state: the process has started against an empty database *)

Init ==
    /\ now \in Instants
    /\ users_col = [u \in UserIds |-> NoUser]
    /\ topics_col = {}
    /\ revisions_col = {}
    /\ nextOid = 1
    /\ wake = 0
    /\ out = Out("none", 0)
    /\ lastRem = [u \in UserIds |-> NoRem]
    /\ alive = TRUE

---------------------------------------------------------------------------
(* The clock *)

\* time passes while the loop sleeps; a pass that is awake runs before the clock
\* is sampled again
AdvanceClock ==
    /\ now < wake \/ ~ alive
    /\ \E t \in Instants : t > now /\ now' = t
    /\ out' = Out("none", 0)
    /\ UNCHANGED << users_col, topics_col, revisions_col, nextOid, wake, alive, lastRem >>

---------------------------------------------------------------------------
(* The topic-creation conversation *)

\* /start, /help
start_command(u) ==
    /\ users_col' = get_user_store(users_col, u)
    /\ out' = Out("none", 0)
    /\ UNCHANGED << now, topics_col, revisions_col, nextOid, wake, alive, lastRem >>

\* /add
add_topic_start(u) ==
    /\ users_col' = update_user_state(users_col, u, "awaiting_topic_name", NoData)
    /\ out' = Out("none", 0)
    /\ UNCHANGED << now, topics_col, revisions_col, nextOid, wake, alive, lastRem >>

\* variant: the topic is created and the conversation state is left as it was
CreateTopicAndReset_NoReset(users, u, name, subject) ==
    /\ Cardinality(topics_col) < MaxTopics
    /\ topics_col' = topics_col \cup { NewTopic(u, name, subject, now, nextOid) }
    /\ revisions_col' = revisions_col \cup NewRevisions(u, now, nextOid)
    /\ nextOid' = nextOid + Len(REVISION_INTERVALS) + 1
    /\ users_col' = users

\* create_topic followed by update_user_state(user_id, None)
CreateTopicAndReset(users, u, name, subject) ==
    /\ Cardinality(topics_col) < MaxTopics
    /\ topics_col' = topics_col \cup { NewTopic(u, name, subject, now, nextOid) }
    /\ revisions_col' = revisions_col \cup NewRevisions(u, now, nextOid)
    /\ nextOid' = nextOid + Len(REVISION_INTERVALS) + 1
    /\ users_col' = update_user_state(users, u, "None", NoData)

\* a private text message that is no command
handle_text_input(u, text) ==
    LET users == get_user_store(users_col, u)
        user == get_user(users_col, u)
    IN  /\ IF user.state = "awaiting_topic_name"
           THEN /\ users_col' = update_user_state(users, u, "awaiting_topic_subject",
                                    [topic_name |-> text, subject |-> ""])
                /\ UNCHANGED << topics_col, revisions_col, nextOid >>
           ELSE IF user.state = "awaiting_topic_notes"
           THEN CreateTopicAndReset(users, u, user.state_data.topic_name,
                                    user.state_data.subject)
           ELSE /\ users_col' = users
                /\ UNCHANGED << topics_col, revisions_col, nextOid >>
        /\ out' = Out("none", 0)
        /\ UNCHANGED << now, wake, alive, lastRem >>

\* the callback of a subject button
handle_subject_selection(u, subject) ==
    LET users == get_user_store(users_col, u)
        user == get_user(users_col, u)
    IN  /\ IF user.state = "awaiting_topic_subject"
           THEN users_col' = update_user_state(users, u, "awaiting_topic_notes",
                                 [topic_name |-> user.state_data.topic_name,
                                  subject |-> subject])
           ELSE users_col' = users
        /\ out' = Out("none", 0)
        /\ UNCHANGED << now, topics_col, revisions_col, nextOid, wake, alive, lastRem >>

\* the callback of the "Skip Notes" button
skip_notes(u) ==
    LET users == get_user_store(users_col, u)
        user == get_user(users_col, u)
    IN  /\ IF user.state = "awaiting_topic_notes"
           THEN CreateTopicAndReset(users, u, user.state_data.topic_name,
                                    user.state_data.subject)
           ELSE /\ users_col' = users
                /\ UNCHANGED << topics_col, revisions_col, nextOid >>
        /\ out' = Out("none", 0)
        /\ UNCHANGED << now, wake, alive, lastRem >>

\* the callback of a "Cancel" button
cancel_operation(u) ==
    /\ users_col' = update_user_state(users_col, u, "None", NoData)
    /\ out' = Out("cancel", u)
    /\ UNCHANGED << now, topics_col, revisions_col, nextOid, wake, alive, lastRem >>

---------------------------------------------------------------------------
(* /due *)

show_due_revisions(u) ==
    LET due_revisions == get_due_revisions(revisions_col, u, now)
    IN  /\ \E L \in FirstN(due_revisions, DueListLimit) :
              out' = [ Out("due", u) EXCEPT
                         !.due = { r.id : r \in due_revisions },
                         !.listed = { r.id : r \in Listed(topics_col, L) } ]
        /\ UNCHANGED << now, users_col, topics_col, revisions_col, nextOid, wake, alive,
                        lastRem >>

---------------------------------------------------------------------------
(* The "mark done" callback *)

\* the revisions that fall due next: their buttons have not been sent yet, their
\* ids follow those of the revisions that are due
NextDue(revs, t) ==
    { x \in revs : /\ x.due_date > t
                   /\ \A y \in revs : y.due_date > t => x.due_date <= y.due_date }

\* callback data a client sends: the data of a button the bot can have sent by
\* now (to any user), data made up for a revision that is not due yet, or a
\* string that names no revision
CallbackInputs ==
    { CompleteData(r.id) : r \in { x \in revisions_col : x.due_date <= now }
                                    \cup NextDue(revisions_col, now) }
       \cup { << "complete", BogusArg >> }

\* variant: the handler that schedules the next stage when a revision is done:
\* the revision is found by the text of its id, completed, and a revision for the
\* entry of the table after its own is inserted
CompletionStore_NextStage(revs, u, data, t) ==
    LET found == { r \in revs : str(r.id) = CallbackArg(data)
                                 /\ r.user_id = u /\ ~ r.completed }
    IN  IF found = {} THEN revs
        ELSE LET revision == CHOOSE r \in found : TRUE
                 later == { i \in 1..Len(REVISION_INTERVALS) :
                              REVISION_INTERVALS[i] > revision.interval }
                 next == IF later = {} THEN revision.interval
                         ELSE REVISION_INTERVALS[CHOOSE i \in later :
                                                   \A j \in later : i <= j]
             IN  complete_revision(revs, revision.id, t) \cup
                   { [ revision EXCEPT !.id = ObjectId(nextOid), !.interval = next,
                                       !.due_date = t + Days(next) ] }

\* variant: the handler of a plan that never ends: the revision is found by the
\* text of its id, completed, and a successor is inserted one last interval on
CompletionStore_WithSuccessor(revs, u, data, t) ==
    LET found == { r \in revs : str(r.id) = CallbackArg(data)
                                 /\ r.user_id = u /\ ~ r.completed }
    IN  IF found = {} THEN revs
        ELSE LET revision == CHOOSE r \in found : TRUE
             IN  complete_revision(revs, revision.id, t) \cup
                   { [ revision EXCEPT
                         !.id = ObjectId(nextOid),
                         !.due_date = t + Days(REVISION_INTERVALS[Len(REVISION_INTERVALS)]) ] }

\* the revisions collection after the handler: find_one, then complete_revision
\* on the document found
CompletionStore(revs, u, data, t) ==
    LET found == FindForCompletion(revs, CallbackArg(data), u)
    IN  IF found = {} THEN revs
        ELSE complete_revision(revs, (CHOOSE r \in found : TRUE).id, t)

handle_complete_revision(u, data) ==
    LET revision_id == CallbackArg(data)
        found == FindForCompletion(revisions_col, revision_id, u)
        updated == CompletionStore(revisions_col, u, data, now)
        open == \E r \in Target(revisions_col, data) : r.user_id = u /\ ~ r.completed
        prev == IF out.kind = "complete" /\ out.user = u /\ out.data = data
                   /\ out.open
                THEN [ valid |-> TRUE, open |-> out.open, answer |-> out.answer ]
                ELSE NoPrev
        cb == [ Out("complete", u) EXCEPT !.data = data, !.open = open, !.prev = prev ]
    IN  /\ revisions_col' = updated
        /\ IF found = {}
           THEN out' = [ cb EXCEPT !.answer = AnsNotFound ]
           ELSE LET revision == CHOOSE r \in found : TRUE
                    success == updated # revisions_col
                    topic_found == TopicFound(topics_col, revision.topic_id)
                    remaining == Cardinality({ r \in updated :
                                     r.topic_id = revision.topic_id /\ ~ r.completed })
                IN  out' =
                      [ cb EXCEPT
                        !.answer = IF ~ success THEN AnsFailed
                                   ELSE IF ~ topic_found THEN AnsError ELSE AnsOk,
                        !.edit = IF ~ success \/ ~ topic_found THEN ""
                                 ELSE IF remaining = 0 THEN EditAllDone
                                 ELSE EditMarked ]
        /\ UNCHANGED << now, users_col, topics_col, nextOid, wake, alive, lastRem >>

---------------------------------------------------------------------------
(* One pass of the loop of send_daily_reminders, up to its asyncio.sleep *)

\* variant: the try around the whole for loop: the first iteration that raises
\* ends the pass (the cursor returns the users in the order of their ids)
Reached_Abort(cand, failed) == { u \in cand : \A f \in failed : u <= f }

\* the users of the cursor whose iteration runs, when the iterations of failed
\* raise: the try is inside the for loop, a raise ends that iteration only
Reached(cand, failed) == cand

ReminderTick ==
    /\ alive
    /\ now >= wake
    /\ \/ \* users_col.find, or the cursor it returns, raises: outside any try,
          \* the exception ends the coroutine
          \* (no sleep is pending any more)
          /\ alive' = FALSE
          /\ wake' = 0
          /\ UNCHANGED lastRem
       \/ /\ LET selected == SelectedUsers(users_col, now)
                 due(u) == get_due_revisions(revisions_col, u, now)
                 attempted == { u \in selected : due(u) # {} }
                 lists == UNION { FirstN(due(u), ReminderListLimit) : u \in attempted }
             IN  \E failed \in SUBSET attempted :
                 \E pick \in [attempted -> lists] :
                    /\ \A u \in attempted : pick[u] \in FirstN(due(u), ReminderListLimit)
                    /\ lastRem' = [ u \in UserIds |->
                          IF u \in Reached(attempted, failed)
                          THEN [ t |-> now, sent |-> TRUE,
                                 revs |-> { r.id : r \in Listed(topics_col, pick[u]) },
                                 ok |-> u \notin failed ]
                          ELSE lastRem[u] ]
          /\ wake' = now + SleepMinutes
          /\ alive' = TRUE
    /\ out' = Out("none", 0)
    /\ UNCHANGED << now, users_col, topics_col, revisions_col, nextOid >>

---------------------------------------------------------------------------

Next ==
    \/ AdvanceClock
    \/ \E u \in UserIds : start_command(u)
    \/ \E u \in UserIds : add_topic_start(u)
    \/ \E u \in UserIds, text \in TopicNames : handle_text_input(u, text)
    \/ \E u \in UserIds, subject \in SubjectInputs : handle_subject_selection(u, subject)
    \/ \E u \in UserIds : skip_notes(u)
    \/ \E u \in UserIds : cancel_operation(u)
    \/ \E u \in UserIds : show_due_revisions(u)
    \/ \E u \in UserIds, data \in CallbackInputs : handle_complete_revision(u, data)
    \/ ReminderTick

Spec == Init /\ [][Next]_vars

---------------------------------------------------------------------------
(* The process started against a database that already holds documents: a  *)
(* topic of user 1 with its six revisions, created some days before at     *)
(* 09:29, so that one of its revisions falls due at 09:29 of the first day. *)

SeedUser == 1

SeedCreatedAt(age) == NotifMinute + WindowMinutes - 1 - Days(age)

\* the stored revisions when the stages of done are recorded as completed
SeedRevisions(age, done) ==
    { IF r.interval \in done
      THEN [r EXCEPT !.completed = TRUE, !.completed_at = Some(r.due_date)]
      ELSE r : r \in NewRevisions(SeedUser, SeedCreatedAt(age), 1) }

InitStore(age, done) ==
    /\ now \in Instants
    /\ users_col = [u \in UserIds |-> IF u = SeedUser THEN NewUser ELSE NoUser]
    /\ topics_col = { NewTopic(SeedUser, "Human Digestive System", SUBJECTS[1],
                               SeedCreatedAt(age), 1) }
    /\ revisions_col = SeedRevisions(age, done)
    /\ nextOid = Len(REVISION_INTERVALS) + 2
    /\ wake = 0
    /\ out = Out("none", 0)
    /\ lastRem = [u \in UserIds |-> NoRem]
    /\ alive = TRUE

\* the topic is 30 days old and none of its revisions has been completed
InitAged == InitStore(REVISION_INTERVALS[Len(REVISION_INTERVALS)], {})

SpecAged == InitAged /\ [][Next]_vars

\* the topic is one day old and its first, or its first two, revisions are
\* recorded as completed
SeedDone == { { REVISION_INTERVALS[i] : i \in 1..k } : k \in { 1, 2 } }

InitCompleted == \E done \in SeedDone : InitStore(REVISION_INTERVALS[2], done)

SpecStore == InitCompleted /\ [][Next]_vars

\* both users have a document and a topic created the day before at 09:29,
\* none of whose revisions has been completed
SeedBase(u) == 1 + (u - 1) * (Len(REVISION_INTERVALS) + 1)

InitTwoUsers ==
    /\ now \in Instants
    /\ users_col = [u \in UserIds |-> NewUser]
    /\ topics_col = { NewTopic(u, "Human Digestive System", SUBJECTS[1],
                               SeedCreatedAt(REVISION_INTERVALS[2]), SeedBase(u))
                      : u \in UserIds }
    /\ revisions_col = UNION { NewRevisions(u, SeedCreatedAt(REVISION_INTERVALS[2]),
                                            SeedBase(u)) : u \in UserIds }
    /\ nextOid = SeedBase(Cardinality(UserIds) + 1)
    /\ wake = 0
    /\ out = Out("none", 0)
    /\ lastRem = [u \in UserIds |-> NoRem]
    /\ alive = TRUE

SpecTwoUsers == InitTwoUsers /\ [][Next]_vars

---------------------------------------------------------------------------
(* Vocabulary of the properties *)

\* the dispatcher placed data on a button it sent to user u: the /due reply u
\* has on screen, or the last reminder delivered to u
Dispatched(u, data) ==
    \/ /\ out.kind = "due" /\ out.user = u
       /\ \E id \in out.listed : CompleteData(id) = data
    \/ /\ lastRem[u].sent /\ lastRem[u].ok
       /\ \E id \in lastRem[u].revs : CompleteData(id) = data

\* data names a revision of user u that exists and has completed = false
Open(revs, u, data) == \E r \in Target(revs, data) : r.user_id = u /\ ~ r.completed

LastInterval == REVISION_INTERVALS[Len(REVISION_INTERVALS)]

\* the stage of a revision: its 0-based position in the batch create_topic
\* inserted right after the topic
StageOf(r) == r.id.v - r.topic_id.v - 1

\* the offsets, in days, that the revisions of stage s of topic tp were given
OffsetsForStage(tp, s) ==
    { r.interval : r \in { x \in revisions_col : x.topic_id = tp.id /\ StageOf(x) = s } }

---------------------------------------------------------------------------
(* Properties *)

\* C1: when the owner of an existing, uncompleted revision invokes the
\* completion callback with the data the dispatcher (/due or a reminder) put on
\* the button, the revision ends with completed = true and completed_at = the
\* time of the call.
C1_CompletionMarksDone ==
    [][ ( /\ out'.kind = "complete"
          /\ Dispatched(out'.user, out'.data)
          /\ Open(revisions_col, out'.user, out'.data) )
        => \E r \in Target(revisions_col', out'.data) :
              r.completed /\ r.completed_at = Some(now') ]_vars

\* C2: of two callbacks in a row by the same user for the same revision, which
\* was uncompleted before the first, the first passes the check (it succeeds)
\* and the second is answered "already completed"; exactly one successor
\* revision has been added to the batch of the topic.
C2_ConcurrentCompletion ==
    ( out.kind = "complete" /\ out.prev.valid /\ out.prev.open )
    => /\ out.prev.answer = AnsOk
       /\ out.answer = AnsNotFound
       /\ \A r \in Target(revisions_col, out.data) :
             Cardinality({ x \in revisions_col : x.topic_id = r.topic_id })
                = Len(REVISION_INTERVALS) + 1

\* C3: no step turns a completed revision back to uncompleted, and a completed
\* revision is neither in the result of get_due_revisions (the /due reply) nor
\* on a button of a reminder.
C3_CompletedIsTerminal ==
    [][ /\ revisions_col' # revisions_col =>
              \A r \in revisions_col :
                 r.completed => \E x \in revisions_col' : x.id = r.id /\ x.completed
        /\ out'.kind = "due" =>
              \A r \in revisions_col :
                 r.completed => r.id \notin (out'.due \cup out'.listed)
        /\ lastRem' # lastRem =>
              \A u \in UserIds :
                 lastRem'[u] # lastRem[u] =>
                    \A r \in revisions_col :
                       r.completed => r.id \notin lastRem'[u].revs
      ]_vars

\* a /due reply that lists revisions of a user who also has a completed revision
\* whose due date has passed
C3_Witness ==
    /\ out.kind = "due" /\ out.due # {}
    /\ \E r \in revisions_col :
          r.completed /\ r.user_id = out.user /\ r.due_date <= now /\ r.id \notin out.due

\* C4: the completion callback on a revision that is already completed leaves
\* every revision as it was (completed, completed_at, and no new revision) and
\* is answered "not found or already completed", not as a success.
C4_CompletionIdempotent ==
    [][ ( /\ out'.kind = "complete"
          /\ \E r \in Target(revisions_col, out'.data) : r.completed )
        => /\ revisions_col' = revisions_col
           /\ out'.answer = AnsNotFound ]_vars

\* the owner has invoked the callback on a revision of theirs that is completed
C4_Witness ==
    /\ out.kind = "complete" /\ out.answer = AnsNotFound
    /\ \E r \in Target(revisions_col, out.data) : r.completed /\ r.user_id = out.user

\* C5: a completion callback whose id names no revision, or a revision of
\* another user, is answered "not found" and leaves every revision unchanged.
C5_NotFoundLeavesStore ==
    [][ ( /\ out'.kind = "complete"
          /\ ~ \E r \in Target(revisions_col, out'.data) : r.user_id = out'.user )
        => /\ out'.answer = AnsNotFound
           /\ revisions_col' = revisions_col ]_vars

\* a user has invoked the callback on an uncompleted revision of another user
C5_Witness ==
    /\ out.kind = "complete" /\ out.answer = AnsNotFound
    /\ \E r \in Target(revisions_col, out.data) : r.user_id # out.user /\ ~ r.completed

\* the time of the last delivered reminder that had revision r on a button (the
\* "last-notified" of r) lies less than one scan period before t
RecentlyNotified(r, t) ==
    LET rem == lastRem[r.user_id]
    IN  rem.sent /\ rem.ok /\ r.id \in rem.revs /\ t - rem.t < SleepMinutes

\* C6, as claimed: get_due_revisions returns a revision of the user exactly when
\* it is uncompleted, due, and not notified within the throttle window.
C6_DueQueryThrottled ==
    out.kind = "due" =>
       out.due = { r.id : r \in { x \in revisions_col :
                      /\ x.user_id = out.user /\ ~ x.completed /\ x.due_date <= now
                      /\ ~ RecentlyNotified(x, now) } }

\* C6, amended: get_due_revisions returns a revision of the user exactly when it
\* is uncompleted and due (due_date <= now); when every due date of the user
\* lies in the future it returns nothing.
C6_DueQuery ==
    out.kind = "due" =>
       out.due = { r.id : r \in { x \in revisions_col :
                      x.user_id = out.user /\ ~ x.completed /\ x.due_date <= now } }

\* a /due reply that returns a revision and leaves out one due in the future
C6_Witness ==
    /\ out.kind = "due" /\ out.due # {}
    /\ \E r \in revisions_col :
          r.user_id = out.user /\ r.due_date > now /\ r.id \notin out.due

\* C7, as claimed: a revision of a delivered reminder is not in the due query
\* before the throttle window has elapsed.
C7_ExcludedAfterDispatch ==
    out.kind = "due" =>
       \A r \in revisions_col : r.id \in out.due => ~ RecentlyNotified(r, now)

\* C7, amended: after a reminder has been delivered, its revisions stay in the
\* due query for as long as they are uncompleted, also right after the send.
C7_StillDueAfterDispatch ==
    ( out.kind = "due" /\ lastRem[out.user].sent /\ lastRem[out.user].ok )
    => \A r \in revisions_col :
          ( r.id \in lastRem[out.user].revs /\ ~ r.completed ) => r.id \in out.due

\* a /due reply in the minute of a delivered reminder, with the same revisions
C7_Witness ==
    /\ out.kind = "due"
    /\ lastRem[out.user].sent /\ lastRem[out.user].ok /\ lastRem[out.user].t = now
    /\ lastRem[out.user].revs # {}
    /\ lastRem[out.user].revs \subseteq out.due

\* C8: two sends of the loop to a user are at least one sleep period apart,
\* those with a revision in common included, and the user's notification time
\* has come round in between; no user is selected both by a pass and by the
\* pass before it.
C8_OneAttemptPerWindow ==
    [][ wake' # wake =>
          \A u \in UserIds :
             /\ ( lastRem[u].sent /\ lastRem'[u] # lastRem[u] ) =>
                   /\ lastRem'[u].t - lastRem[u].t >= SleepMinutes
                   /\ \E x \in (lastRem[u].t + 1)..lastRem'[u].t :
                         strftime_HM(x) = users_col[u].notification_time
             /\ wake > 0 =>
                   ~ ( /\ u \in SelectedUsers(users_col, now)
                       /\ u \in SelectedUsers(users_col, wake - SleepMinutes) ) ]_vars

\* a send was attempted at 09:00 and the pass one sleep later has run without
\* selecting the user again
C8_Witness ==
    \E u \in UserIds :
       /\ lastRem[u].sent /\ lastRem[u].t = NotifMinute
       /\ now >= NotifMinute + SleepMinutes
       /\ wake > now

\* C9, as claimed: completing the due final-stage revision of a topic with
\* complete_revision leaves a successor of that topic in the collection,
\* uncompleted and due one last interval later.
C9_SuccessorAfterFinalStage ==
    \A r \in revisions_col :
       ( r.interval = LastInterval /\ ~ r.completed /\ r.due_date <= now )
       => \E x \in complete_revision(revisions_col, r.id, now) :
             /\ x.topic_id = r.topic_id /\ ~ x.completed
             /\ x.due_date = now + Days(LastInterval)

\* C9, amended: completing a revision generates no successor, for the final
\* stage as for any other: the completion callback, and complete_revision for
\* the revision the callback names, leave the collection with the revisions it
\* had, so a topic keeps the six of its batch.
C9_NoSuccessor ==
    [][ out'.kind = "complete" =>
          /\ { r.id : r \in revisions_col' } = { r.id : r \in revisions_col }
          /\ \A r \in Target(revisions_col, out'.data) :
                { x.id : x \in complete_revision(revisions_col, r.id, now') }
                   = { x.id : x \in revisions_col } ]_vars

\* the owner has invoked the callback for the due final-stage revision and its
\* topic holds the six revisions of its batch
C9_Witness ==
    /\ out.kind = "complete"
    /\ \E r \in Target(revisions_col, out.data) :
          /\ r.user_id = out.user /\ r.interval = LastInterval /\ r.due_date <= now
          /\ Cardinality({ x \in revisions_col : x.topic_id = r.topic_id })
                = Len(REVISION_INTERVALS)

\* C10: when the send to a user failed in the previous pass of the loop and the
\* user still has due revisions, this pass (one that selects its users and
\* reaches its sleep) attempts the send again.
C10_RetryNextTick ==
    [][ ( wake' # wake /\ alive' ) =>
          \A u \in UserIds :
             ( /\ lastRem[u].sent /\ ~ lastRem[u].ok
               /\ lastRem[u].t + SleepMinutes = wake
               /\ get_due_revisions(revisions_col, u, now) # {} )
             => ( lastRem'[u].sent /\ lastRem'[u].t = now ) ]_vars

\* C11: in a pass of the loop that has selected its users, every selected user
\* with due revisions has the send attempted, whichever sends of that pass
\* raise; and a pass in which a send raised goes on to its sleep and the next pass.
C11_FailureIsolation ==
    [][ /\ ( wake' # wake /\ alive' ) =>
             \A u \in SelectedUsers(users_col, now) :
                get_due_revisions(revisions_col, u, now) # {}
                => ( lastRem'[u].sent /\ lastRem'[u].t = now )
        /\ ( \E u \in UserIds : lastRem'[u] # lastRem[u] /\ ~ lastRem'[u].ok )
           => ( alive' /\ wake' = now + SleepMinutes ) ]_vars

\* a pass in which the send to the first user of the cursor raised and the send
\* to the user after it was delivered, and the loop is asleep until its next pass
C11_Witness ==
    \E u1, u2 \in UserIds :
       /\ u1 < u2
       /\ lastRem[u1].sent /\ ~ lastRem[u1].ok
       /\ lastRem[u2].sent /\ lastRem[u2].ok /\ lastRem[u2].revs # {}
       /\ lastRem[u1].t = lastRem[u2].t
       /\ alive /\ wake = lastRem[u1].t + SleepMinutes

\* C12: a pass whose user query raises is skipped and the loop lives on: the
\* task of send_daily_reminders, once running, never ends.
C12_ScannerSurvivesStoreFailure ==
    [][ alive => alive' ]_vars

\* C13: a step that creates a topic at time now adds to the collection exactly
\* the batch of that topic: one revision per entry of REVISION_INTERVALS, with
\* completed = false, completed_at unset and due_date = now + that entry in
\* days, and the due dates ascend in the order of the stages.
C13_ScheduleGeneration ==
    [][ \A tp \in topics_col' \ topics_col :
          LET batch == { r \in revisions_col' : r.topic_id = tp.id }
          IN  /\ tp.created_at = now
              /\ batch = revisions_col' \ revisions_col
              /\ Cardinality(batch) = Len(REVISION_INTERVALS)
              /\ \A i \in 1..Len(REVISION_INTERVALS) :
                    Cardinality({ r \in batch :
                        /\ r.interval = REVISION_INTERVALS[i]
                        /\ r.due_date = now + Days(REVISION_INTERVALS[i])
                        /\ ~ r.completed /\ r.completed_at = None }) = 1
              /\ \A r1, r2 \in batch :
                    r1.id.v < r2.id.v => r1.due_date <= r2.due_date ]_vars

\* a topic has just been created: its six revisions are in the collection, the
\* last of them due thirty days from now
C13_Witness ==
    \E tp \in topics_col :
       /\ tp.created_at = now
       /\ users_col[tp.user_id].state = "None"
       /\ Cardinality({ r \in revisions_col : r.topic_id = tp.id })
             = Len(REVISION_INTERVALS)
       /\ \E r \in revisions_col :
             r.topic_id = tp.id /\ r.due_date = now + Days(LastInterval)

\* C14: the collection never holds two revisions of the same topic for the same
\* interval, whatever topics were created and whatever completions were asked.
C14_NoDuplicateRevisions ==
    \A r1, r2 \in revisions_col :
       ( r1.topic_id = r2.topic_id /\ r1.interval = r2.interval ) => r1.id = r2.id

\* the owner has asked to complete a revision of a topic whose later stages are
\* already in the collection
C14_Witness ==
    /\ out.kind = "complete"
    /\ \E r \in Target(revisions_col, out.data) :
          /\ r.user_id = out.user
          /\ \E x \in revisions_col :
                x.topic_id = r.topic_id /\ x.interval > r.interval /\ ~ x.completed

\* C15: every revision has completed_at set exactly when completed is true, in
\* the collection as it is and as complete_revision leaves it for any revision.
C15_CompletedAtIffCompleted ==
    \A r \in revisions_col :
       /\ r.completed <=> r.completed_at # None
       /\ \A x \in complete_revision(revisions_col, r.id, now) :
             x.completed <=> x.completed_at # None

\* the collection holds completed and uncompleted revisions, and the owner has
\* asked to complete one of the uncompleted ones
C15_Witness ==
    /\ out.kind = "complete" /\ out.open
    /\ \E r \in revisions_col : r.completed /\ r.completed_at # None
    /\ \E r \in revisions_col : ~ r.completed /\ r.completed_at = None

C18_OwnerPartition ==
    /\ out.kind = "due" =>
          \A r \in revisions_col :
             r.id \in (out.due \cup out.listed) => r.user_id = out.user
    /\ \A u \in UserIds : \A r \in revisions_col :
          r.id \in lastRem[u].revs => r.user_id = u

\* a user has a /due listing and a reminder with buttons while another user has
\* due revisions as well
C18_Witness ==
    /\ out.kind = "due" /\ out.listed # {}
    /\ lastRem[out.user].sent /\ lastRem[out.user].revs # {}
    /\ \E r \in revisions_col :
          r.user_id # out.user /\ ~ r.completed /\ r.due_date <= now

\* x is revision r with the fields that are fixed at creation unchanged
SameRevision(r, x) ==
    /\ x.id = r.id /\ x.topic_id = r.topic_id /\ x.user_id = r.user_id
    /\ x.interval = r.interval /\ x.due_date = r.due_date

\* C19: every step keeps every revision with its topic_id, user_id, interval and
\* due_date; completed and completed_at change in a completion callback only; a
\* /due listing and a pass of the reminder loop leave the collection as it is;
\* and complete_revision, for the revision a callback names, changes nothing
\* but completed and completed_at of that revision.
C19_RevisionFrame ==
    [][ /\ revisions_col' # revisions_col =>
             \A r \in revisions_col : \E x \in revisions_col' :
                /\ SameRevision(r, x)
                /\ ( x.completed # r.completed \/ x.completed_at # r.completed_at )
                   => out'.kind = "complete"
        /\ ( out'.kind = "due" \/ wake' # wake ) => revisions_col' = revisions_col
        /\ out'.kind = "complete" =>
             \A r \in Target(revisions_col, out'.data) :
                \A x \in complete_revision(revisions_col, r.id, now) :
                   \E y \in revisions_col :
                      SameRevision(y, x) /\ ( y.id # r.id => x = y ) ]_vars

\* after a delivered reminder and a later /due listing the collection still
\* holds completed revisions and uncompleted due ones
C19_Witness ==
    /\ out.kind = "due" /\ out.due # {}
    /\ lastRem[out.user].sent /\ lastRem[out.user].ok /\ lastRem[out.user].t < now
    /\ \E r \in revisions_col : r.completed
    /\ \E r \in revisions_col : ~ r.completed /\ r.due_date <= now

\* C20: while the loop runs, a user with due revisions whose notification time
\* falls after the pass before and not after this pass is selected by this pass
\* (later passes of the day look at later minutes only): the windows of
\* successive passes leave no minute uncovered.
C20_ReminderCoverage ==
    [][ ( wake' # wake /\ alive' /\ wake > 0 ) =>
          \A u \in UserIds :
             LET minute == users_col[u].notification_time[1] * 60
                             + users_col[u].notification_time[2]
             IN  ( /\ users_col[u].exists
                   /\ get_due_revisions(revisions_col, u, now) # {}
                   /\ wake - SleepMinutes < minute /\ minute <= now )
                 => u \in SelectedUsers(users_col, now) ]_vars

---------------------------------------------------------------------------
\* user u has a document whose conversation state is state
Waiting(u, state) == users_col[u].exists /\ users_col[u].state = state

\* C21: the topic-creation conversation.  A step that adds a topic adds exactly
\* one, for a user whose stored state was awaiting_topic_notes, with the
\* topic_name and subject of that user's state_data (both set), adds the six
\* revisions of that topic and nothing else, and leaves the user's state None
\* (so a second delivery of the final step finds state None and creates
\* nothing); a user's state becomes awaiting_topic_notes only from
\* awaiting_topic_subject and awaiting_topic_subject only from
\* awaiting_topic_name, and awaiting_topic_notes always holds both fields;
\* "cancel" leaves the user's state None and topics and revisions as they were.
C21_TopicCreationConversation ==
    [][ /\ topics_col' # topics_col =>
            \E u \in UserIds, tp \in topics_col' \ topics_col :
                /\ topics_col' = topics_col \cup { tp }
                /\ Waiting(u, "awaiting_topic_notes")
                /\ tp.user_id = u
                /\ tp.topic_name = users_col[u].state_data.topic_name
                /\ tp.subject = users_col[u].state_data.subject
                /\ tp.topic_name # "" /\ tp.subject # ""
                /\ revisions_col \subseteq revisions_col'
                /\ Cardinality(revisions_col' \ revisions_col) = Len(REVISION_INTERVALS)
                /\ \A r \in revisions_col' \ revisions_col :
                       r.topic_id = tp.id /\ r.user_id = u /\ ~ r.completed
                /\ users_col'[u].state = "None"
                /\ users_col'[u].state_data = NoData
                /\ \A v \in UserIds \ { u } : users_col'[v] = users_col[v]
        /\ topics_col' = topics_col =>
            Cardinality(revisions_col') = Cardinality(revisions_col)
        /\ \A u \in UserIds :
            /\ users_col'[u].state = "awaiting_topic_notes" =>
                /\ users_col'[u].state_data.topic_name # ""
                /\ users_col'[u].state_data.subject # ""
                /\ \/ /\ Waiting(u, "awaiting_topic_subject")
                      /\ users_col'[u].state_data.topic_name
                             = users_col[u].state_data.topic_name
                   \/ /\ Waiting(u, "awaiting_topic_notes")
                      /\ users_col'[u].state_data = users_col[u].state_data
            /\ users_col'[u].state = "awaiting_topic_subject" =>
                /\ users_col'[u].state_data.topic_name # ""
                /\ \/ Waiting(u, "awaiting_topic_name")
                   \/ /\ Waiting(u, "awaiting_topic_subject")
                      /\ users_col'[u].state_data = users_col[u].state_data
        /\ out'.kind = "cancel" =>
            /\ users_col'[out'.user].state = "None"
            /\ topics_col' = topics_col
            /\ revisions_col' = revisions_col
      ]_vars

\* a flow has finished: a topic exists with its six revisions, created for a
\* user whose state is None again, and the last handler that ran was "cancel"
\* for the other user, who has a document
C21_Witness ==
    \E tp \in topics_col :
        /\ users_col[tp.user_id].exists
        /\ users_col[tp.user_id].state = "None"
        /\ Cardinality({ r \in revisions_col : r.topic_id = tp.id })
               = Len(REVISION_INTERVALS)
        /\ Cardinality(topics_col) = 1
        /\ out.kind = "cancel"
        /\ out.user # tp.user_id
        /\ users_col[out.user].exists

====
